---- MODULE Spec2Model ----
(***************************************************************************)
(* Model of the two scripts of phase1/scripts:                             *)
(*   compute_shap_importance.py  hierarchical SHAP aggregation, global     *)
(*                               normalisation, outcome floor, outputs,    *)
(*                               validation (specification SpecShap)       *)
(*   optimize_layout.py          subtree cache, radial placement,          *)
(*                               collision count, gap sweep and selection  *)
(*                               (specification SpecLayout)                *)
(* Python floats are modelled as exact rationals <<numerator,              *)
(* denominator>> in lowest terms; angles are rational multiples of pi.     *)
(***************************************************************************)
EXTENDS Integers, Sequences, FiniteSets, TLC

VARIABLES
    pc,                 \* position of the running script
    nodes,              \* the 'nodes' list of v2_1_visualization_final.json
    shap_scores,        \* B25_shap_scores.pkl: leaf id -> shap_normalized
    nodes_by_id,        \* build_hierarchy: id -> node
    children_by_parent, \* parent id -> child ids in input order
    node_shap_raw,      \* result of compute_hierarchical_shap
    default_used,       \* a parent's sum read a child that had no value yet
    normalized_shap,    \* result of normalize_shap
    max_shap,           \* second result of normalize_shap
    floor_call,         \* outcome of a call of apply_outcome_floor
    written,            \* the artifacts generate_outputs has written
    all_passed,         \* result of run_validation_checks
    exit_status,        \* status the process exits with
    subtree_cache,      \* optimize_layout: id -> layer -> count
    trig,               \* the values of math.cos, math.sin met so far
    last_configs,       \* argument of the last layout run
    calls,              \* arguments of the position_subtree calls of the last run
    positioned,         \* 'positioned' of the last layout run
    coll,               \* collision count the last layout run returned
    details,            \* collision details the last layout run returned
    results,            \* the sweep's result list
    best                \* the selected configuration

\* state of compute_shap_importance.py only
shapVars == <<shap_scores, node_shap_raw, default_used, normalized_shap,
              max_shap, floor_call, written, all_passed, exit_status>>

\* state of optimize_layout.py only
layoutVars == <<subtree_cache, trig, last_configs, calls, positioned, coll,
                details, results, best>>

vars == <<pc, nodes, nodes_by_id, children_by_parent, shapVars, layoutVars>>

NoParent == 0   \* parent of the root (None); ids start at 1

(***************************************************************************)
(* Bounds of the model                                                     *)
(***************************************************************************)
MaxWidth == 2
MaxNodes == 11
MaxScore == 3

(***************************************************************************)
(* Exact rational arithmetic standing for Python float arithmetic          *)
(***************************************************************************)
Abs(x) == IF x < 0 THEN -x ELSE x

RECURSIVE GCD(_, _)
GCD(a, b) == IF b = 0 THEN a ELSE GCD(b, a % b)

Rat(n, d) ==
    LET s == IF d < 0 THEN -1 ELSE 1
        g == GCD(Abs(n), Abs(d))
    IN  <<(s * n) \div g, (s * d) \div g>>

Zero == <<0, 1>>
One == <<1, 1>>
RInt(n) == <<n, 1>>
RAdd(a, b) == Rat(a[1] * b[2] + b[1] * a[2], a[2] * b[2])
RSub(a, b) == Rat(a[1] * b[2] - b[1] * a[2], a[2] * b[2])
RMul(a, b) == Rat(a[1] * b[1], a[2] * b[2])
RDiv(a, b) == Rat(a[1] * b[2], a[2] * b[1])
RLt(a, b) == a[1] * b[2] < b[1] * a[2]
RLe(a, b) == a[1] * b[2] <= b[1] * a[2]
RMax(a, b) == IF RLt(a, b) THEN b ELSE a

RECURSIVE RSumSeq(_)
RSumSeq(s) == IF s = <<>> THEN Zero ELSE RAdd(s[1], RSumSeq(Tail(s)))

RMaxSet(S) == CHOOSE x \in S : \A y \in S : RLe(y, x)

MaxInt(S) == CHOOSE x \in S : \A y \in S : y <= x

Get(m, k, d) == IF k \in DOMAIN m THEN m[k] ELSE d

Range(s) == {s[i] : i \in DOMAIN s}

(***************************************************************************)
(* Input trees: the 'nodes' list of the visualization file.  Layers are    *)
(* 0..5; every node of layer k > 0 names a parent of layer k-1.  Nodes are *)
(* listed layer by layer and ids are positions in the list.                *)
(***************************************************************************)
LeafLayer == 5
ExpectedOutcomes == 9

Width(ns, l) == Cardinality({i \in DOMAIN ns : ns[i].layer = l})

RootOnly == <<[id |-> 1, layer |-> 0, parent |-> NoParent, importance |-> Zero]>>

\* a node may be appended under parent p: the list stays layer by layer, and
\* either no layer is wider than MaxWidth and the tree has at most MaxNodes
\* nodes, or layer 1 grows towards the ExpectedOutcomes outcomes of the real
\* data set and the layers below it hold one node each
CanAppend(ns, p) ==
    LET l == ns[p].layer + 1
    IN  /\ l <= LeafLayer
        /\ ns[Len(ns)].parent <= p
        /\ IF l = 1
           THEN Width(ns, 1) < ExpectedOutcomes
           ELSE IF Width(ns, 1) <= MaxWidth
           THEN Width(ns, l) < MaxWidth /\ Len(ns) < MaxNodes
           ELSE Width(ns, 1) = ExpectedOutcomes /\ Width(ns, l) < 1

\* the k-th ancestor of node j (NoParent above the root)
RECURSIVE AncK(_, _, _)
AncK(ns, j, k) ==
    IF k = 0 \/ j = NoParent THEN j ELSE AncK(ns, ns[j].parent, k - 1)

Subtree(ns, i) == {j \in DOMAIN ns : \E k \in 0..LeafLayer : AncK(ns, j, k) = i}

\* the aggregation reads no order among siblings, so of the files that differ
\* only in that order one is kept: the larger subtree first
SiblingsSorted(ns) ==
    \A i \in 1..(Len(ns) - 1) :
        ns[i].parent = ns[i + 1].parent =>
            Cardinality(Subtree(ns, i)) >= Cardinality(Subtree(ns, i + 1))

ScoreOrAbsent(sc, i) == IF i \in DOMAIN sc THEN sc[i] ELSE -1

\* and among sibling leaves the larger score first
LeafScoresSorted(ns, sc) ==
    \A i \in 1..(Len(ns) - 1) :
        (ns[i].layer = LeafLayer /\ ns[i].parent = ns[i + 1].parent) =>
            ScoreOrAbsent(sc, i) >= ScoreOrAbsent(sc, i + 1)

\* a complete input file
IsInput(ns) ==
    /\ SiblingsSorted(ns)
    /\ \/ Width(ns, 1) <= MaxWidth /\ Len(ns) <= MaxNodes
       \/ Width(ns, 1) = ExpectedOutcomes

LayerIds(ns, l) == {ns[i].id : i \in {j \in DOMAIN ns : ns[j].layer = l}}

PartialMaps(S, T) == UNION {[D -> T] : D \in SUBSET S}

(***************************************************************************)
(* compute_shap_importance.py                                              *)
(***************************************************************************)
FLOOR_PERCENTAGE == <<1, 2>>
Inf == <<1, 0>>     \* float('inf'): greater than every rational under RLt

\* build_hierarchy: {str(n['id']): n for n in nodes}
NodesById(ns) ==
    [id \in {ns[i].id : i \in DOMAIN ns} |->
        ns[MaxInt({i \in DOMAIN ns : ns[i].id = id})]]

\* build_hierarchy: children_by_parent[parent].append(id), in input order
ChildrenByParent(ns) ==
    [p \in {ns[i].parent : i \in {j \in DOMAIN ns : ns[j].parent # NoParent}} |->
        LET kids == SelectSeq(ns, LAMBDA n : n.parent = p)
        IN  [k \in DOMAIN kids |-> kids[k].id]]

RECURSIVE SumSeq(_)
SumSeq(s) == IF s = <<>> THEN 0 ELSE s[1] + SumSeq(Tail(s))

\* lines 77-85: every layer-5 node gets its score, 0 when it has none
LeafAssign(scores, nbi) ==
    [id \in {i \in DOMAIN nbi : nbi[i].layer = LeafLayer} |->
        IF id \in DOMAIN scores THEN scores[id] ELSE 0]

\* lines 93-101: the value one node of the layer being aggregated gets
AggregateNode(shap, id, cbp) ==
    LET children == Get(cbp, id, <<>>)
    IN  IF children # <<>>
        THEN SumSeq([k \in DOMAIN children |-> Get(shap, children[k], 0)])
        ELSE Get(shap, id, 0)

\* lines 91-101: the nodes of one layer.  No node of the inputs has a child
\* in its own layer, so the order within a layer does not matter and the
\* layer is assigned at once
AggregateLayer(st, layer, nbi, cbp) ==
    LET ids == {id \in DOMAIN nbi : nbi[id].layer = layer}
    IN  [shap |-> [id \in ids \cup DOMAIN st.shap |->
                     IF id \in ids THEN AggregateNode(st.shap, id, cbp)
                     ELSE st.shap[id]],
         default_used |-> st.default_used
             \/ \E id \in ids : \E k \in DOMAIN Get(cbp, id, <<>>) :
                    cbp[id][k] \notin DOMAIN st.shap]

\* a faulty order, top-down: parents are summed before their children
LayerOrderAscending == <<0, 1, 2, 3, 4>>
\* line 90: for layer in [4, 3, 2, 1, 0]
LayerOrder == <<4, 3, 2, 1, 0>>

\* the state of node_shap after the first k layers of the order
RECURSIVE AggregateLayers(_, _, _, _, _)
AggregateLayers(st, order, k, nbi, cbp) ==
    IF k = 0 THEN st
    ELSE AggregateLayer(AggregateLayers(st, order, k - 1, nbi, cbp),
                        order[k], nbi, cbp)

compute_hierarchical_shap(scores, nbi, cbp) ==
    AggregateLayers([shap |-> LeafAssign(scores, nbi), default_used |-> FALSE],
                    LayerOrder, Len(LayerOrder), nbi, cbp)

\* a faulty division, by max + 1: the largest value falls short of 1
NormalizeValueSmoothed(shap_val, max_val) ==
    IF max_val > 0 THEN Rat(shap_val, max_val + 1) ELSE Zero
\* line 155: shap_val / max_shap if max_shap > 0 else 0
NormalizeValue(shap_val, max_val) ==
    IF max_val > 0 THEN Rat(shap_val, max_val) ELSE Zero

\* normalize_shap; max() of an empty map raises ValueError
normalize_shap(node_shap) ==
    IF DOMAIN node_shap = {} THEN [raised |-> TRUE]
    ELSE LET m == MaxInt({node_shap[id] : id \in DOMAIN node_shap})
         IN  [raised |-> FALSE,
              normalized |-> [id \in DOMAIN node_shap |->
                                 NormalizeValue(node_shap[id], m)],
              max_shap |-> m]

\* a faulty floor, max / 0.5 in place of 0.5 * max
FloorValueDivided(max_outcome) == RDiv(max_outcome, FLOOR_PERCENTAGE)
\* line 124
FloorValue(max_outcome) == RMul(FLOOR_PERCENTAGE, max_outcome)

\* lines 132-141: what the loop does with one outcome
FloorEntry(imp_val, floor_value) ==
    IF RLt(imp_val, floor_value) /\ RLt(Zero, imp_val)
    THEN [hit |-> TRUE, boost |-> RDiv(floor_value, imp_val)]
    ELSE IF imp_val = Zero
    THEN [hit |-> TRUE, boost |-> Inf]
    ELSE [hit |-> FALSE]

\* a faulty floor that raises the entries of every layer, not of layer 1 only
apply_floor_to_every_layer(normalized, nbi) ==
    LET outcomes == {id \in DOMAIN nbi : nbi[id].layer = 1}
    IN  IF outcomes = {} \/ ~(outcomes \subseteq DOMAIN normalized)
        THEN [status |-> "raised"]
        ELSE LET floor_value ==
                     FloorValue(RMaxSet({normalized[id] : id \in outcomes}))
                 hits == {id \in DOMAIN normalized :
                             FloorEntry(normalized[id], floor_value).hit}
             IN  [status |-> "returned",
                  floor_value |-> floor_value,
                  shap |-> [id \in DOMAIN normalized |->
                              IF id \in hits THEN floor_value
                              ELSE normalized[id]],
                  boosted |-> [id \in hits |->
                              FloorEntry(normalized[id], floor_value).boost]]

\* apply_outcome_floor; a missing key or max() of no outcomes raises
apply_outcome_floor(normalized, nbi) ==
    LET outcomes == {id \in DOMAIN nbi : nbi[id].layer = 1}
    IN  IF outcomes = {} \/ ~(outcomes \subseteq DOMAIN normalized)
        THEN [status |-> "raised"]
        ELSE LET max_outcome == RMaxSet({normalized[id] : id \in outcomes})
                 floor_value == FloorValue(max_outcome)
                 hits == {id \in outcomes :
                             FloorEntry(normalized[id], floor_value).hit}
             IN  [status |-> "returned",
                  floor_value |-> floor_value,
                  shap |-> [id \in DOMAIN normalized |->
                              IF id \in hits THEN floor_value
                              ELSE normalized[id]],
                  boosted |-> [id \in hits |->
                              FloorEntry(normalized[id], floor_value).boost]]

\* generate_outputs: the enriched node list and the importance metadata
generate_outputs(ns, normalized, raw, boosted) ==
    [viz |-> [i \in DOMAIN ns |->
                [id |-> ns[i].id, layer |-> ns[i].layer, parent |-> ns[i].parent,
                 importance |-> Get(normalized, ns[i].id, Zero),
                 shap_raw |-> Get(raw, ns[i].id, 0)]],
     node_importance |-> [id \in {ns[i].id : i \in DOMAIN ns} |->
                [shap_raw |-> Get(raw, id, 0),
                 shap_normalized |-> Get(normalized, id, Zero),
                 layer |-> NodesById(ns)[id].layer,
                 is_outcome |-> NodesById(ns)[id].layer = 1,
                 floor_adjusted |-> id \in DOMAIN boosted]],
     boost_factor |-> [id \in {ns[i].id : i \in DOMAIN ns} \cap DOMAIN boosted |->
                boosted[id]],
     floor_applied |-> TRUE,
     floor_percentage |-> FLOOR_PERCENTAGE,
     nodes_with_importance |->
         Cardinality({id \in DOMAIN normalized : RLt(Zero, normalized[id])})]

\* run_validation_checks: the four (name, passed) pairs, in order
ValidationChecks(normalized, nbi) ==
    << \A id \in DOMAIN nbi : id \in DOMAIN normalized,
       \A id \in DOMAIN normalized :
           RLe(Zero, normalized[id]) /\ RLe(normalized[id], One),
       Cardinality({id \in DOMAIN nbi : nbi[id].layer = 1}) = ExpectedOutcomes,
       RMaxSet({normalized[id] : id \in DOMAIN normalized}) = One >>

\* a faulty verdict, any() in place of all()
run_validation_any(normalized, nbi) ==
    \E k \in DOMAIN ValidationChecks(normalized, nbi) :
        ValidationChecks(normalized, nbi)[k]
\* line 346: all(passed for _, passed in checks)
run_validation_checks(normalized, nbi) ==
    \A k \in DOMAIN ValidationChecks(normalized, nbi) :
        ValidationChecks(normalized, nbi)[k]

NoCall == [status |-> "none"]
NoBest == [gap |-> 0]
NotWritten == [floor_applied |-> FALSE]

InitShap ==
    /\ pc = "input"
    /\ nodes = RootOnly
    /\ shap_scores = <<>>
    /\ nodes_by_id = <<>>
    /\ children_by_parent = <<>>
    /\ node_shap_raw = <<>>
    /\ default_used = FALSE
    /\ normalized_shap = <<>>
    /\ max_shap = 0
    /\ floor_call = NoCall
    /\ written = NotWritten
    /\ all_passed = FALSE
    /\ exit_status = -1
    /\ subtree_cache = <<>>
    /\ trig = <<>>
    /\ last_configs = <<>>
    /\ calls = <<>>
    /\ positioned = <<>>
    /\ coll = 0
    /\ details = <<>>
    /\ results = <<>>
    /\ best = NoBest

\* the upstream pipeline writes one more node record to the input file
AppendNode ==
    /\ pc = "input"
    /\ \E p \in DOMAIN nodes :
          /\ CanAppend(nodes, p)
          /\ nodes' = Append(nodes, [id |-> Len(nodes) + 1,
                                     layer |-> nodes[p].layer + 1,
                                     parent |-> p, importance |-> Zero])
    /\ UNCHANGED <<pc, shap_scores, nodes_by_id, children_by_parent,
                   node_shap_raw, default_used, normalized_shap, max_shap,
                   floor_call, written, all_passed, exit_status,
                   layoutVars>>

\* main, line 355: load_data reads the score file and the node file
LoadData ==
    /\ pc = "input"
    /\ IsInput(nodes)
    /\ shap_scores' \in PartialMaps(LayerIds(nodes, LeafLayer), 0..MaxScore)
    /\ LeafScoresSorted(nodes, shap_scores')
    /\ pc' = "main"
    /\ UNCHANGED <<nodes, nodes_by_id, children_by_parent,
                   node_shap_raw, default_used, normalized_shap, max_shap,
                   floor_call, written, all_passed, exit_status,
                   layoutVars>>

\* main, line 358
BuildHierarchy ==
    /\ pc = "main"
    /\ nodes_by_id' = NodesById(nodes)
    /\ children_by_parent' = ChildrenByParent(nodes)
    /\ pc' = "hierarchy"
    /\ UNCHANGED <<nodes, shap_scores, node_shap_raw, default_used,
                   normalized_shap, max_shap, floor_call, written, all_passed,
                   exit_status,
                   layoutVars>>

\* main, line 361
ComputeHierarchicalShap ==
    /\ pc = "hierarchy"
    /\ LET r == compute_hierarchical_shap(shap_scores, nodes_by_id,
                                          children_by_parent)
       IN  /\ node_shap_raw' = r.shap
           /\ default_used' = r.default_used
    /\ pc' = "shap"
    /\ UNCHANGED <<nodes, shap_scores, nodes_by_id, children_by_parent,
                   normalized_shap, max_shap, floor_call, written, all_passed,
                   exit_status,
                   layoutVars>>

\* main, line 364
NormalizeShap ==
    /\ pc = "shap"
    /\ LET r == normalize_shap(node_shap_raw)
       IN  IF r.raised
           THEN /\ pc' = "raised"
                /\ exit_status' = 1
                /\ UNCHANGED <<normalized_shap, max_shap>>
           ELSE /\ pc' = "normalized"
                /\ normalized_shap' = r.normalized
                /\ max_shap' = r.max_shap
                /\ UNCHANGED exit_status
    /\ UNCHANGED <<nodes, shap_scores, nodes_by_id, children_by_parent,
                   node_shap_raw, default_used, floor_call, written, all_passed,
                   layoutVars>>

\* main, lines 367-370: boosted = {} and generate_outputs
GenerateOutputs ==
    /\ pc = "normalized"
    /\ written' = generate_outputs(nodes, normalized_shap, node_shap_raw, <<>>)
    /\ pc' = "outputs"
    /\ UNCHANGED <<nodes, shap_scores, nodes_by_id, children_by_parent,
                   node_shap_raw, default_used, normalized_shap, max_shap,
                   floor_call, all_passed, exit_status,
                   layoutVars>>

\* main, line 373
RunValidationChecks ==
    /\ pc = "outputs"
    /\ all_passed' = run_validation_checks(normalized_shap, nodes_by_id)
    /\ pc' = "validated"
    /\ UNCHANGED <<nodes, shap_scores, nodes_by_id, children_by_parent,
                   node_shap_raw, default_used, normalized_shap, max_shap,
                   floor_call, written, exit_status,
                   layoutVars>>

\* lines 388-389: exit(0 if success else 1)
Exit ==
    /\ pc = "validated"
    /\ exit_status' = IF all_passed THEN 0 ELSE 1
    /\ pc' = "exited"
    /\ UNCHANGED <<nodes, shap_scores, nodes_by_id, children_by_parent,
                   node_shap_raw, default_used, normalized_shap, max_shap,
                   floor_call, written, all_passed,
                   layoutVars>>

\* apply_outcome_floor is defined but main never calls it: a call of it on
\* the normalized map main holds, its result kept apart in floor_call
ApplyOutcomeFloor ==
    /\ pc = "exited"
    /\ floor_call = NoCall
    /\ floor_call' = apply_outcome_floor(normalized_shap, nodes_by_id)
    /\ UNCHANGED <<pc, nodes, shap_scores, nodes_by_id, children_by_parent,
                   node_shap_raw, default_used, normalized_shap, max_shap,
                   written, all_passed, exit_status,
                   layoutVars>>

NextShap ==
    \/ AppendNode
    \/ LoadData
    \/ BuildHierarchy
    \/ ComputeHierarchicalShap
    \/ NormalizeShap
    \/ GenerateOutputs
    \/ RunValidationChecks
    \/ Exit
    \/ ApplyOutcomeFloor

SpecShap == InitShap /\ [][NextShap]_vars

(***************************************************************************)
(* optimize_layout.py                                                      *)
(***************************************************************************)
MaxLayoutNodes == 6
MaxSweep == 3

\* importance values of the input file, their square roots rational; the
\* nodes of one input file all carry the same one
ImportanceInputs == {<<1, 4>>, One}

\* math.sqrt on the squares of rationals
ISqrt(n) == CHOOSE k \in 0..n : k * k = n
RSqrt(r) == <<ISqrt(r[1]), ISqrt(r[2])>>

\* lines 195-202
size_ranges ==
    << <<RInt(12), RInt(12)>>, <<RInt(3), RInt(18)>>, <<RInt(2), RInt(14)>>,
       <<RInt(2), RInt(12)>>, <<<<3, 2>>, RInt(10)>>, <<RInt(1), RInt(8)>> >>

\* lines 210-213: RingConfig(i * gap, ...) for i in range(6), indexed from 0
RingConfigs(gap) ==
    [i \in 0..5 |-> [radius |-> RInt(i * gap),
                     min_size |-> size_ranges[i + 1][1],
                     max_size |-> size_ranges[i + 1][2]]]

\* lines 178-185: equal spacing with gap 150
current == RingConfigs(150)

\* line 209
GapList == <<100, 120, 140, 150, 160, 180, 200, 220, 250, 280, 300, 320, 350, 400>>

\* the gaps the sweep tries
SweepGaps == SubSeq(GapList, 1, MaxSweep)

node_padding == 2
OVERLAP_TOLERANCE == <<1, 2>>
MinTotalExtent == <<1, 10000>>      \* 0.0001
StartAngle == <<-1, 2>>             \* -math.pi / 2, in units of pi
FullCircle == <<2, 1>>              \* 2 * math.pi, in units of pi

\* get_actual_node_size
get_actual_node_size(node, config) ==
    RAdd(config.min_size,
         RMul(RSub(config.max_size, config.min_size), RSqrt(node.importance)))

\* a faulty count that stops at the node's children
subtree_info_of_children(node_id, max_layer, nbi, cbp) ==
    LET children == Get(cbp, node_id, <<>>)
    IN  [l \in 0..max_layer |->
            (IF l = nbi[node_id].layer THEN 1 ELSE 0)
            + Cardinality({k \in DOMAIN children : nbi[children[k]].layer = l})]

\* build_subtree_info
RECURSIVE build_subtree_info(_, _, _, _)
build_subtree_info(node_id, max_layer, nbi, cbp) ==
    LET children == Get(cbp, node_id, <<>>)
        child_counts == [k \in DOMAIN children |->
                            build_subtree_info(children[k], max_layer, nbi, cbp)]
    IN  [l \in 0..max_layer |->
            (IF l = nbi[node_id].layer THEN 1 ELSE 0)
            + SumSeq([k \in DOMAIN children |-> child_counts[k][l]])]

\* lines 62-65
SubtreeCache(ns, nbi, cbp) ==
    LET max_layer == MaxInt({ns[i].layer : i \in DOMAIN ns})
    IN  [id \in DOMAIN nbi |-> build_subtree_info(id, max_layer, nbi, cbp)]

\* get_required_extent: the largest count * spacing / radius over the layers
get_required_extent(node_id, ring_configs, cache) ==
    LET counts == cache[node_id]
        used == {l \in DOMAIN counts :
                    /\ l \in DOMAIN ring_configs
                    /\ counts[l] > 0
                    /\ RLt(Zero, ring_configs[l].radius)}
        extent(l) == RDiv(RMul(RInt(counts[l]),
                               RAdd(RMul(ring_configs[l].max_size, RInt(2)),
                                    RInt(node_padding))),
                          ring_configs[l].radius)
    IN  IF used = {} THEN Zero ELSE RMaxSet({extent(l) : l \in used})

\* lines 117 and 135: extent / max(total, 0.0001)
Scale(angular_extent, total) ==
    RDiv(angular_extent, RMax(total, MinTotalExtent))

\* a faulty loop that never advances child_start
KeepStart(child_start, slice) == child_start
\* lines 121 and 140: child_start += slice
NextStart(child_start, slice) == RAdd(child_start, slice)

\* the start angle of the i-th slice
RECURSIVE SliceStart(_, _, _, _)
SliceStart(start_angle, extents, scale, i) ==
    IF i = 1 THEN start_angle
    ELSE NextStart(SliceStart(start_angle, extents, scale, i - 1),
                   RMul(extents[i - 1], scale))

\* lines 90 and 115: [get_required_extent(cid) for cid in child_ids], the
\* first k of them
RECURSIVE RequiredExtents(_, _, _, _)
RequiredExtents(child_ids, k, ring_configs, cache) ==
    IF k = 0 THEN <<>>
    ELSE Append(RequiredExtents(child_ids, k - 1, ring_configs, cache),
                get_required_extent(child_ids[k], ring_configs, cache))

\* position_subtree: the calls it makes, itself first, in call order
RECURSIVE position_subtree(_, _, _, _, _, _)
RECURSIVE PlaceChildren(_, _, _, _, _, _, _, _)
position_subtree(node_id, start_angle, angular_extent, ring_configs, cache, cbp) ==
    LET child_ids == Get(cbp, node_id, <<>>)
        child_extents == RequiredExtents(child_ids, Len(child_ids),
                                         ring_configs, cache)
        scale == Scale(angular_extent, RSumSeq(child_extents))
    IN  <<[id |-> node_id, start_angle |-> start_angle,
           angular_extent |-> angular_extent]>>
        \o PlaceChildren(child_ids, child_extents, scale, start_angle,
                         Len(child_ids), ring_configs, cache, cbp)

\* lines 119-121 and 137-140: the first k children, each in its slice
PlaceChildren(child_ids, child_extents, scale, start_angle, k, ring_configs, cache, cbp) ==
    IF k = 0 THEN <<>>
    ELSE PlaceChildren(child_ids, child_extents, scale, start_angle, k - 1,
                       ring_configs, cache, cbp)
         \o position_subtree(child_ids[k],
                             SliceStart(start_angle, child_extents, scale, k),
                             RMul(child_extents[k], scale),
                             ring_configs, cache, cbp)

\* line 72: the first node of layer 0
RootId(ns) == ns[CHOOSE i \in DOMAIN ns :
                    ns[i].layer = 0 /\ \A j \in 1..(i - 1) : ns[j].layer # 0].id

\* lines 90-91 and 134-140: the outcomes share the full circle
PositionCalls(ns, ring_configs, cache, cbp) ==
    LET outcome_ids == Get(cbp, RootId(ns), <<>>)
        outcome_extents == RequiredExtents(outcome_ids, Len(outcome_ids),
                                           ring_configs, cache)
        scale == Scale(FullCircle, RSumSeq(outcome_extents))
    IN  PlaceChildren(outcome_ids, outcome_extents, scale, StartAngle,
                      Len(outcome_ids), ring_configs, cache, cbp)

\* line 99
CenterAngle(call) ==
    RAdd(call.start_angle, RDiv(call.angular_extent, RInt(2)))

\* math.cos and math.sin are not computed: the pair (cos a, sin a) is one of
\* the rational directions of UnitPoints, the same one each time the same
\* angle a is asked for
UnitPoints == {<< <<3, 5>>, <<4, 5>> >>, << <<4, 5>>, <<3, 5>> >>}

CosSin(table, a) == table[a]

\* the angles whose cosine and sine a run asks for
AskedAngles(cs) == {CenterAngle(cs[k]) : k \in DOMAIN cs}

\* lines 96-111 and 124-132: the positioned list, the root first
Positioned(ns, nbi, ring_configs, cs, table) ==
    <<[id |-> RootId(ns), layer |-> 0, x |-> Zero, y |-> Zero,
       size |-> get_actual_node_size(nbi[RootId(ns)], ring_configs[0]),
       importance |-> nbi[RootId(ns)].importance]>>
    \o [k \in DOMAIN cs |->
          LET node == nbi[cs[k].id]
              cfg == ring_configs[node.layer]
              cossin == CosSin(table, CenterAngle(cs[k]))
          IN  [id |-> cs[k].id, layer |-> node.layer,
               x |-> RMul(cfg.radius, cossin[1]),
               y |-> RMul(cfg.radius, cossin[2]),
               size |-> get_actual_node_size(node, cfg),
               importance |-> node.importance]]

Square(r) == RMul(r, r)
DistSquared(n1, n2) ==
    RAdd(Square(RSub(n1.x, n2.x)), Square(RSub(n1.y, n2.y)))
MinDist(n1, n2) == RSub(RAdd(n1.size, n2.size), OVERLAP_TOLERANCE)

\* lines 158-163: sqrt(dx*dx + dy*dy) < min_dist
Collides(n1, n2) ==
    /\ RLt(Zero, MinDist(n1, n2))
    /\ RLt(DistSquared(n1, n2), Square(MinDist(n1, n2)))

\* lines 145-150: the layers in order of first appearance
RECURSIVE LayersInOrder(_, _)
LayersInOrder(ps, k) ==
    IF k = 0 THEN <<>>
    ELSE LET before == LayersInOrder(ps, k - 1)
         IN  IF ps[k].layer \in Range(before) THEN before
             ELSE Append(before, ps[k].layer)

\* a faulty inner loop that starts at i and pairs a node with itself
JFromSelf(i) == i
\* line 156: for j in range(i + 1, len(layer_nodes))
JFrom(i) == i + 1

\* lines 155-172: the details of one layer, pairs (i, j) in loop order
RECURSIVE PairDetails(_, _, _)
PairDetails(layer_nodes, i, j) ==
    IF i > Len(layer_nodes) THEN <<>>
    ELSE IF j > Len(layer_nodes)
    THEN PairDetails(layer_nodes, i + 1, JFrom(i + 1))
    ELSE (IF Collides(layer_nodes[i], layer_nodes[j])
          THEN <<[layer |-> layer_nodes[i].layer,
                  distance_squared |-> DistSquared(layer_nodes[i], layer_nodes[j]),
                  min_distance |-> MinDist(layer_nodes[i], layer_nodes[j]),
                  size1 |-> layer_nodes[i].size,
                  size2 |-> layer_nodes[j].size]>>
          ELSE <<>>)
         \o PairDetails(layer_nodes, i, j + 1)

\* lines 154-172 over the first k layers
RECURSIVE CollisionDetails(_, _, _)
CollisionDetails(ps, layers, k) ==
    IF k = 0 THEN <<>>
    ELSE CollisionDetails(ps, layers, k - 1)
         \o PairDetails(SelectSeq(ps, LAMBDA q : q.layer = layers[k]), 1, JFrom(1))

\* compute_collisions_with_actual_sizes: its locals and its result
compute_collisions_with_actual_sizes(ns, nbi, cbp, cache, ring_configs, table) ==
    LET cs == PositionCalls(ns, ring_configs, cache, cbp)
        ps == Positioned(ns, nbi, ring_configs, cs, table)
        layers == LayersInOrder(ps, Len(ps))
        collision_details == CollisionDetails(ps, layers, Len(layers))
    IN  [calls |-> cs, positioned |-> ps,
         collisions |-> Len(collision_details),
         collision_details |-> collision_details]

\* line 216
MaxRadius(configs) == RMaxSet({configs[i].radius : i \in DOMAIN configs})

\* lines 219-227
AvgActualSize(ns, configs) ==
    LET sized == SelectSeq(ns, LAMBDA n : n.layer \in DOMAIN configs)
    IN  IF Len(sized) > 0
        THEN RDiv(RSumSeq([k \in DOMAIN sized |->
                     get_actual_node_size(sized[k], configs[sized[k].layer])]),
                  RInt(Len(sized)))
        ELSE Zero

\* a faulty sort key that leaves the collisions out
SortKeyRadiusOnly(r) == <<0, r.max_radius[1]>>

\* line 238: key=lambda x: (x['collisions'], x['max_radius'])
SortKey(r) == <<r.collisions, r.max_radius[1]>>

KeyLe(a, b) == a[1] < b[1] \/ (a[1] = b[1] /\ a[2] <= b[2])

\* list.sort is stable: an element goes after the elements whose key is not greater
RECURSIVE InsertSorted(_, _)
InsertSorted(sorted, r) ==
    IF sorted = <<>> THEN <<r>>
    ELSE IF KeyLe(SortKey(sorted[Len(sorted)]), SortKey(r)) THEN Append(sorted, r)
    ELSE Append(InsertSorted(SubSeq(sorted, 1, Len(sorted) - 1), r),
                sorted[Len(sorted)])

RECURSIVE SortResults(_, _)
SortResults(rs, k) ==
    IF k = 0 THEN <<>> ELSE InsertSorted(SortResults(rs, k - 1), rs[k])

\* a faulty selection, max() in place of min()
MaxByRadius(rs) ==
    rs[CHOOSE i \in DOMAIN rs :
          \A j \in DOMAIN rs : RLe(rs[j].max_radius, rs[i].max_radius)]
\* line 250: min(zero_coll, key=max_radius), the first of the smallest
MinByRadius(rs) ==
    rs[CHOOSE i \in DOMAIN rs :
          /\ \A j \in DOMAIN rs : RLe(rs[i].max_radius, rs[j].max_radius)
          /\ \A j \in 1..(i - 1) : RLt(rs[i].max_radius, rs[j].max_radius)]

\* lines 248-260
SelectBest(rs) ==
    LET zero_coll == SelectSeq(rs, LAMBDA r : r.collisions = 0)
    IN  IF zero_coll # <<>>
        THEN [result |-> MinByRadius(zero_coll), zero_found |-> TRUE]
        ELSE [result |-> rs[1], zero_found |-> FALSE]

InitLayout ==
    /\ pc = "input"
    /\ \E imp \in ImportanceInputs :
          nodes = <<[id |-> 1, layer |-> 0, parent |-> NoParent, importance |-> imp]>>
    /\ shap_scores = <<>>
    /\ nodes_by_id = <<>>
    /\ children_by_parent = <<>>
    /\ node_shap_raw = <<>>
    /\ default_used = FALSE
    /\ normalized_shap = <<>>
    /\ max_shap = 0
    /\ floor_call = NoCall
    /\ written = NotWritten
    /\ all_passed = FALSE
    /\ exit_status = -1
    /\ subtree_cache = <<>>
    /\ trig = <<>>
    /\ last_configs = <<>>
    /\ calls = <<>>
    /\ positioned = <<>>
    /\ coll = 0
    /\ details = <<>>
    /\ results = <<>>
    /\ best = NoBest

\* one more node record of the file the layout script reads
AppendLayoutNode ==
    /\ pc = "input"
    /\ Len(nodes) < MaxLayoutNodes
    /\ \E p \in DOMAIN nodes :
          /\ nodes[p].layer < LeafLayer
          /\ nodes[Len(nodes)].parent <= p
          /\ nodes' = Append(nodes, [id |-> Len(nodes) + 1,
                                     layer |-> nodes[p].layer + 1,
                                     parent |-> p,
                                     importance |-> nodes[1].importance])
    /\ UNCHANGED <<pc, nodes_by_id, children_by_parent, shapVars, layoutVars>>

\* lines 12-34 and 62-65: the hierarchy and the subtree cache
LoadLayout ==
    /\ pc = "input"
    /\ nodes_by_id' = NodesById(nodes)
    /\ children_by_parent' = ChildrenByParent(nodes)
    /\ subtree_cache' = SubtreeCache(nodes, NodesById(nodes), ChildrenByParent(nodes))
    /\ pc' = "current"
    /\ UNCHANGED <<nodes, shapVars, trig, last_configs, calls, positioned,
                   coll, details, results, best>>

\* a layout run with the configuration rc; the cosines and sines it is the
\* first to ask for enter the table
LayoutRun(rc) ==
    \E asked \in {AskedAngles(PositionCalls(nodes, rc, subtree_cache,
                                            children_by_parent))} :
    \E more \in [asked \ DOMAIN trig -> UnitPoints] :
    \E r \in {compute_collisions_with_actual_sizes(nodes, nodes_by_id,
                  children_by_parent, subtree_cache, rc, more @@ trig)} :
        /\ trig' = more @@ trig
        /\ last_configs' = rc
        /\ calls' = r.calls
        /\ positioned' = r.positioned
        /\ coll' = r.collisions
        /\ details' = r.collision_details

\* line 186
SimulateCurrent ==
    /\ pc = "current"
    /\ LayoutRun(current)
    /\ pc' = "sweep"
    /\ UNCHANGED <<nodes, nodes_by_id, children_by_parent, shapVars,
                   subtree_cache, results, best>>

\* lines 209-235: one gap of the sweep
SweepStep ==
    /\ pc = "sweep"
    /\ Len(results) < Len(SweepGaps)
    /\ LET gap == SweepGaps[Len(results) + 1]
           configs == RingConfigs(gap)
       IN  /\ LayoutRun(configs)
           /\ results' = Append(results,
                   [gap |-> gap, collisions |-> coll',
                    max_radius |-> MaxRadius(configs),
                    avg_actual_size |-> AvgActualSize(nodes, configs)])
    /\ UNCHANGED <<pc, nodes, nodes_by_id, children_by_parent, shapVars,
                   subtree_cache, best>>

\* line 238
Sort ==
    /\ pc = "sweep"
    /\ Len(results) = Len(SweepGaps)
    /\ results' = SortResults(results, Len(results))
    /\ pc' = "sorted"
    /\ UNCHANGED <<nodes, nodes_by_id, children_by_parent, shapVars,
                   subtree_cache, trig, last_configs, calls, positioned, coll,
                   details, best>>

\* lines 248-260
Select ==
    /\ pc = "sorted"
    /\ best' = SelectBest(results)
    /\ pc' = "selected"
    /\ UNCHANGED <<nodes, nodes_by_id, children_by_parent, shapVars,
                   subtree_cache, trig, last_configs, calls, positioned, coll,
                   details, results>>

NextLayout ==
    \/ AppendLayoutNode
    \/ LoadLayout
    \/ SimulateCurrent
    \/ SweepStep
    \/ Sort
    \/ Select

SpecLayout == InitLayout /\ [][NextLayout]_vars

(***************************************************************************)
(* Properties of compute_shap_importance.py, checked under SpecShap        *)
(***************************************************************************)
InUnit(v) == RLe(Zero, v) /\ RLe(v, One)

PostShap == pc \in {"shap", "normalized", "outputs", "validated", "exited"}
PostNormalized == pc \in {"normalized", "outputs", "validated", "exited"}

SomeLeafPositive ==
    \E id \in DOMAIN shap_scores : shap_scores[id] > 0

OutcomeIds == {id \in DOMAIN nodes_by_id : nodes_by_id[id].layer = 1}

\* C1: every node's importance lies in [0, 1] in the map normalize_shap
\* returns and in the map apply_outcome_floor returns
C1_ImportanceInUnitRange ==
    /\ \A id \in DOMAIN normalized_shap : InUnit(normalized_shap[id])
    /\ floor_call.status = "returned" =>
          \A id \in DOMAIN floor_call.shap : InUnit(floor_call.shap[id])

\* a floor call that raised an outcome lying strictly between 0 and the floor
C1_Witness ==
    /\ floor_call.status = "returned"
    /\ \E id \in DOMAIN floor_call.boosted :
          /\ RLt(Zero, normalized_shap[id])
          /\ RLt(normalized_shap[id], floor_call.shap[id])
          /\ RLt(floor_call.shap[id], One)

\* C2: after normalization the largest importance is exactly 1 when some
\* leaf has a positive score (the nodes of largest raw value carry it), and
\* every importance is 0 otherwise
C2_MaxIsOneOrAllZero ==
    PostNormalized =>
        IF SomeLeafPositive
        THEN /\ \E id \in DOMAIN normalized_shap : normalized_shap[id] = One
             /\ \A id \in DOMAIN normalized_shap : RLe(normalized_shap[id], One)
             /\ \A id \in DOMAIN normalized_shap :
                    (\A other \in DOMAIN node_shap_raw :
                        node_shap_raw[other] <= node_shap_raw[id])
                    => normalized_shap[id] = One
        ELSE \A id \in DOMAIN normalized_shap : normalized_shap[id] = Zero

\* a normalized map with a positive leaf, some node strictly between 0 and 1
C2_Witness ==
    /\ PostNormalized
    /\ SomeLeafPositive
    /\ \E id \in DOMAIN normalized_shap :
          RLt(Zero, normalized_shap[id]) /\ RLt(normalized_shap[id], One)

\* C3: every node of layers 0..4 that has children gets the sum of its
\* children's final raw values, and no sum reads a child that has no value
\* yet
C3_ParentIsSumOfChildren ==
    PostShap =>
        /\ ~default_used
        /\ \A id \in DOMAIN children_by_parent :
              (id \in DOMAIN nodes_by_id /\ nodes_by_id[id].layer < LeafLayer) =>
                  /\ id \in DOMAIN node_shap_raw
                  /\ \A k \in DOMAIN children_by_parent[id] :
                        children_by_parent[id][k] \in DOMAIN node_shap_raw
                  /\ node_shap_raw[id] =
                        SumSeq([k \in DOMAIN children_by_parent[id] |->
                                   node_shap_raw[children_by_parent[id][k]]])

\* a node two layers above the leaves or higher whose two children both have
\* positive values
C3_Witness ==
    /\ pc = "shap"
    /\ \E id \in DOMAIN children_by_parent :
          /\ nodes_by_id[id].layer <= 3
          /\ Len(children_by_parent[id]) >= 2
          /\ \A k \in DOMAIN children_by_parent[id] :
                node_shap_raw[children_by_parent[id][k]] > 0

\* the floor the claims speak of: half the largest outcome importance
ClaimedFloor ==
    RMul(FLOOR_PERCENTAGE, RMaxSet({normalized_shap[id] : id \in OutcomeIds}))

\* C4: apply_outcome_floor treats an outcome of value v in exactly one of
\* three ways: 0 < v < floor becomes floor with boost floor / v; v = 0 becomes
\* floor with an infinite boost; v >= floor stays as it is with no boost
C4_FloorThreeCases ==
    floor_call.status = "returned" =>
        \A id \in OutcomeIds :
            LET v == normalized_shap[id]
            IN  /\ (RLt(Zero, v) /\ RLt(v, ClaimedFloor)) =>
                      /\ floor_call.shap[id] = ClaimedFloor
                      /\ id \in DOMAIN floor_call.boosted
                      /\ floor_call.boosted[id] = RDiv(ClaimedFloor, v)
                /\ v = Zero =>
                      /\ floor_call.shap[id] = ClaimedFloor
                      /\ id \in DOMAIN floor_call.boosted
                      /\ floor_call.boosted[id] = Inf
                /\ RLe(ClaimedFloor, v) =>
                      /\ floor_call.shap[id] = v
                      /\ id \notin DOMAIN floor_call.boosted

\* C5: when every outcome's importance is 0 the floor step is skipped: the
\* call returns, the values are unchanged and the boosted map is empty
C5_AllZeroSkipsFloor ==
    (/\ floor_call.status # "none"
     /\ OutcomeIds # {}
     /\ \A id \in OutcomeIds : normalized_shap[id] = Zero) =>
        /\ floor_call.status = "returned"
        /\ floor_call.shap = normalized_shap
        /\ DOMAIN floor_call.boosted = {}

\* the outcome entries of the node list main has written
WrittenOutcomes == {i \in DOMAIN written.viz : written.viz[i].layer = 1}

\* C6: in the output main writes, every outcome's importance is at least
\* half the largest outcome importance
C6_WrittenOutcomesAboveFloor ==
    written.floor_applied =>
        \A i \in WrittenOutcomes :
            RLe(RMul(FLOOR_PERCENTAGE,
                     RMaxSet({written.viz[j].importance : j \in WrittenOutcomes})),
                written.viz[i].importance)

\* the four checks, each stated on the state
CheckAllNodesHaveValue ==
    \A i \in DOMAIN nodes : nodes[i].id \in DOMAIN normalized_shap
CheckRange ==
    \A id \in DOMAIN normalized_shap : InUnit(normalized_shap[id])
CheckNineOutcomes == Width(nodes, 1) = ExpectedOutcomes
CheckMaxIsOne ==
    /\ \E id \in DOMAIN normalized_shap : normalized_shap[id] = One
    /\ \A id \in DOMAIN normalized_shap : RLe(normalized_shap[id], One)

\* C9: main writes the outputs before it validates and whatever the
\* validation says; run_validation_checks is true exactly when all four
\* checks pass; the exit status is 0 exactly when it is true; main does not
\* raise, the all-zero case included
C9_OutputsThenValidationThenExit ==
    /\ pc # "raised"
    /\ pc \in {"input", "main", "hierarchy", "shap", "normalized"} =>
          ~written.floor_applied /\ ~all_passed /\ exit_status = -1
    /\ pc = "outputs" =>
          written.floor_applied /\ ~all_passed /\ exit_status = -1
    /\ pc \in {"validated", "exited"} =>
          /\ written.floor_applied
          /\ Len(written.viz) = Len(nodes)
          /\ all_passed <=> (/\ CheckAllNodesHaveValue
                             /\ CheckRange
                             /\ CheckNineOutcomes
                             /\ CheckMaxIsOne)
    /\ pc = "validated" => exit_status = -1
    /\ pc = "exited" => /\ exit_status \in {0, 1}
                        /\ exit_status = 0 <=> all_passed

\* a run on nine outcomes without a positive leaf: outputs written, the
\* validation fails on the maximum alone, exit status 1
C9_Witness ==
    /\ pc = "exited"
    /\ max_shap = 0
    /\ written.floor_applied
    /\ CheckAllNodesHaveValue /\ CheckRange /\ CheckNineOutcomes
    /\ ~all_passed
    /\ exit_status = 1

\* C11: apply_outcome_floor leaves the entry of every node outside layer 1
\* as it was; the entry of a layer-1 node is the larger of its own value
\* and the floor taken from the values before the call, whatever happened
\* to the other outcomes; the raw map is still the one the aggregation
\* returned
C11_FloorTouchesOutcomesOnly ==
    floor_call.status = "returned" =>
        /\ DOMAIN floor_call.shap = DOMAIN normalized_shap
        /\ \A id \in DOMAIN normalized_shap \ OutcomeIds :
              floor_call.shap[id] = normalized_shap[id]
        /\ \A id \in OutcomeIds :
              floor_call.shap[id] =
                  (IF RLt(normalized_shap[id], ClaimedFloor)
                   THEN ClaimedFloor ELSE normalized_shap[id])
        /\ DOMAIN floor_call.boosted \subseteq OutcomeIds
        /\ node_shap_raw =
              compute_hierarchical_shap(shap_scores, nodes_by_id,
                                        children_by_parent).shap

\* a call that raised one outcome, left another one alone, and left alone a
\* node of a deeper layer whose value lies below the floor
C11_Witness ==
    /\ floor_call.status = "returned"
    /\ \E id \in OutcomeIds : floor_call.shap[id] # normalized_shap[id]
    /\ \E id \in OutcomeIds :
          /\ floor_call.shap[id] = normalized_shap[id]
          /\ RLt(normalized_shap[id], One)
    /\ \E id \in DOMAIN normalized_shap \ OutcomeIds :
          /\ RLt(normalized_shap[id], ClaimedFloor)
          /\ floor_call.shap[id] = normalized_shap[id]

(***************************************************************************)
(* Properties of optimize_layout.py, checked under SpecLayout              *)
(***************************************************************************)
\* C7: with a collision-free result in the sweep, best is a collision-free
\* result of smallest max_radius; without one, the branch that reports that
\* none was found is taken and best has the fewest collisions and, among
\* those, the smallest max_radius
C7_BestSelection ==
    pc = "selected" =>
        LET zero == {i \in DOMAIN results : results[i].collisions = 0}
            b == best.result
        IN  /\ b \in Range(results)
            /\ IF zero # {}
               THEN /\ best.zero_found
                    /\ b.collisions = 0
                    /\ \A i \in zero : RLe(b.max_radius, results[i].max_radius)
               ELSE /\ ~best.zero_found
                    /\ \A i \in DOMAIN results :
                          /\ b.collisions <= results[i].collisions
                          /\ results[i].collisions = b.collisions =>
                                RLe(b.max_radius, results[i].max_radius)

\* a selection from a sweep whose smallest gaps collide and whose last does not
C7_Witness ==
    /\ pc = "selected"
    /\ best.zero_found
    /\ \E i \in DOMAIN results :
          /\ results[i].collisions > 0
          /\ RLt(results[i].max_radius, best.result.max_radius)

\* the unordered pairs of distinct positioned nodes of one layer whose
\* distance is below the sum of their sizes less the tolerance, each pair
\* written once with the earlier node first
CollidingPairs ==
    {pair \in (DOMAIN positioned) \X (DOMAIN positioned) :
        /\ pair[1] < pair[2]
        /\ positioned[pair[1]].layer = positioned[pair[2]].layer
        /\ LET n1 == positioned[pair[1]]
               n2 == positioned[pair[2]]
               reach == RSub(RAdd(n1.size, n2.size), <<1, 2>>)
               dx == RSub(n1.x, n2.x)
               dy == RSub(n1.y, n2.y)
           IN  /\ RLt(Zero, reach)
               /\ RLt(RAdd(RMul(dx, dx), RMul(dy, dy)), RMul(reach, reach))}

\* C8: the collision count a layout run returns is the number of unordered
\* pairs of distinct same-layer nodes with distance < size + size - 0.5,
\* and it is the length of the details list
C8_CollisionCount ==
    positioned # <<>> =>
        /\ coll = Cardinality(CollidingPairs)
        /\ coll = Len(details)

\* a run that counted a collision while another pair of one layer went
\* uncounted
C8_Witness ==
    /\ coll > 0
    /\ \E i \in DOMAIN positioned : \E j \in DOMAIN positioned :
          /\ i < j
          /\ positioned[i].layer = positioned[j].layer
          /\ <<i, j>> \notin CollidingPairs

CallOf(id) == calls[CHOOSE k \in DOMAIN calls : calls[k].id = id]

RequiredExtent(id) == get_required_extent(id, last_configs, subtree_cache)

\* the slices of child_ids tile the extent that begins at start: the first
\* begins there, each next one begins where the one before ends, each is the
\* extent times the child's share of the required extents, and their sum is
\* the extent
SlicesTile(child_ids, start, extent) ==
    \E slice \in {[i \in DOMAIN child_ids |-> CallOf(child_ids[i])]} :
    \E req \in {RequiredExtents(child_ids, Len(child_ids), last_configs,
                                subtree_cache)} :
        /\ slice[1].start_angle = start
        /\ \A i \in 1..(Len(child_ids) - 1) :
              slice[i + 1].start_angle =
                  RAdd(slice[i].start_angle, slice[i].angular_extent)
        /\ \A i \in DOMAIN child_ids :
              RMul(slice[i].angular_extent, RSumSeq(req)) = RMul(req[i], extent)
        /\ RSumSeq([i \in DOMAIN child_ids |-> slice[i].angular_extent]) = extent

\* C10: the children of a positioned node tile its angular extent, in
\* order and in proportion to their required extents; the outcomes tile the
\* full circle from -pi/2, and two outcomes of equal required extent have
\* centers exactly pi apart
C10_SlicesTileParent ==
    calls # <<>> =>
        LET outcome_ids == children_by_parent[RootId(nodes)]
        IN  /\ SlicesTile(outcome_ids, StartAngle, FullCircle)
            /\ \A k \in DOMAIN calls :
                  calls[k].id \in DOMAIN children_by_parent =>
                      SlicesTile(children_by_parent[calls[k].id],
                                 calls[k].start_angle, calls[k].angular_extent)
            /\ (/\ Len(outcome_ids) = 2
                /\ RequiredExtent(outcome_ids[1]) = RequiredExtent(outcome_ids[2])) =>
                   RSub(CenterAngle(CallOf(outcome_ids[2])),
                        CenterAngle(CallOf(outcome_ids[1]))) = One

\* a run on two outcomes of different required extents, one of them with
\* three children
C10_Witness ==
    /\ calls # <<>>
    /\ \E k \in DOMAIN calls : \E m \in DOMAIN calls :
          /\ nodes_by_id[calls[k].id].layer = 1
          /\ nodes_by_id[calls[m].id].layer = 1
          /\ RLt(calls[k].angular_extent, calls[m].angular_extent)
          /\ calls[m].id \in DOMAIN children_by_parent
          /\ Len(children_by_parent[calls[m].id]) >= 3

\* the largest layer of the input
max_layer_of_input == MaxInt({nodes[i].layer : i \in DOMAIN nodes})

\* C12: for every node n and layer l in 0..max_layer, subtree_cache[n][l]
\* is the number of nodes of layer l in the subtree rooted at n, n counted
\* at its own layer; it is 1 or 0 for n itself plus the sum of the
\* children's entries; for the root it is the number of nodes of layer l
C12_SubtreeCounts ==
    subtree_cache # <<>> =>
        /\ DOMAIN subtree_cache = {nodes[i].id : i \in DOMAIN nodes}
        /\ \A n \in DOMAIN subtree_cache :
              /\ DOMAIN subtree_cache[n] = 0..max_layer_of_input
              /\ \E subtree \in {Subtree(nodes, n)} :
                    \A l \in 0..max_layer_of_input :
                        subtree_cache[n][l] =
                            Cardinality({j \in subtree : nodes[j].layer = l})
              /\ \A l \in 0..max_layer_of_input :
                    /\ subtree_cache[n][l] =
                          (IF nodes_by_id[n].layer = l THEN 1 ELSE 0)
                          + SumSeq([k \in DOMAIN Get(children_by_parent, n, <<>>) |->
                                      subtree_cache[children_by_parent[n][k]][l]])
        /\ \A l \in 0..max_layer_of_input :
              subtree_cache[RootId(nodes)][l] = Width(nodes, l)

\* a cache in which a node below the root counts two nodes two layers
\* further out
C12_Witness ==
    /\ subtree_cache # <<>>
    /\ \E n \in DOMAIN subtree_cache :
          /\ nodes_by_id[n].layer >= 1
          /\ \E l \in DOMAIN subtree_cache[n] :
                /\ l >= nodes_by_id[n].layer + 2
                /\ subtree_cache[n][l] >= 2

\* C13: the configuration selected as best is the first element of the
\* results list sorted by (collisions, max_radius), in the branch with a
\* collision-free result and in the branch without one
C13_BestIsRankOne ==
    pc = "selected" =>
        /\ best.result = results[1]
        /\ \A i \in 1..(Len(results) - 1) :
              KeyLe(<<results[i].collisions, results[i].max_radius[1]>>,
                    <<results[i + 1].collisions, results[i + 1].max_radius[1]>>)

\* a selection on the collision-free branch whose best was not the first
\* gap swept, from a list that also holds colliding results
C13_Witness ==
    /\ pc = "selected"
    /\ best.zero_found
    /\ best.result.gap # SweepGaps[1]
    /\ results[Len(results)].collisions > 0

====
